---- MODULE Spec2Model ----
(***************************************************************************)
(* A model of the canonical LR(1) recognizer of this repository:           *)
(* grammar.py (Grammar: FIRST/FOLLOW) and parser.py (LR1Parser: closure,   *)
(* goto, build_states, build_tables, predict) and main.py (read_input,     *)
(* main).                                                                  *)
(*                                                                         *)
(* Python lists are modelled as sequences, Python sets as sets, Python     *)
(* dicts as functions whose DOMAIN is the set of keys, and Python tuples   *)
(* as tuples.  The list of states is indexed from 0 as in the source.      *)
(***************************************************************************)
EXTENDS Integers, Sequences, FiniteSets, TLC

VARIABLES
  args,          \* the arguments handed to Grammar(non_terminals, terminals, rules, start_symbol)
  pc,            \* where the program is: "new", "constructed", "construct_error",
                 \* "build_tables", "fitted", "grammar_error"
  grammar,       \* the Grammar object (NoGrammar until constructed)
  states,        \* LR1Parser.states, a 0-indexed list of item sets
  transitions,   \* LR1Parser.transitions, a list of <<from_state, symbol, to_state>>
  action_table,  \* LR1Parser.action_table, a 0-indexed list of dicts
  goto_table,    \* LR1Parser.goto_table, a 0-indexed list of dicts
  bt_idx,        \* build_tables: index of the state whose items are being visited
  bt_todo,       \* build_tables: items of that state not visited yet
  ppc,           \* per predict call: "idle", "run", "done" (returned, result holds the value)
  word,          \* per predict call: the local list word (input plus '$')
  stack,         \* per predict call: the local stack
  idx,           \* per predict call: the local cursor idx
  result,        \* per predict call: the returned value
  stdin,         \* main: the lines of the standard input, each a list of characters
  mpc,           \* main: "off" (main is not run), "start", "try", "except", "exit",
                 \* "crash" (an exception has left main)
  words,         \* main: the local words, unbound until read_input has returned
  wi,            \* main: number of words the loop "for word in words" is done with
  output,        \* main: the lines printed
  clo_items,     \* a call of closure on its own: the argument items
  clo_result     \* a call of closure on its own: the set it has returned

vars == <<args, pc, grammar, states, transitions, action_table, goto_table,
          bt_idx, bt_todo, ppc, word, stack, idx, result,
          stdin, mpc, words, wi, output, clo_items, clo_result>>

mainVars == <<stdin, mpc, words, wi, output>>

closureVars == <<clo_items, clo_result>>

parserVars == <<grammar, states, transitions, action_table, goto_table>>

-----------------------------------------------------------------------------
(* Bounds of the model *)

\* longest query word handed to predict
MaxWordLen == 3
\* largest number of productions drawn from RulePool for one grammar
MaxRules == 3
\* number of extra iteration orders (rotations) of the symbol set tried by build_states
MaxRotation == 1
\* longest query word of the predict calls that run at the same time
MaxConcurrentWordLen == 2
\* loop iterations after which a whole run of predict is cut
MaxIterations == 40
\* longest sentential form the derivations of the reference semantics keep
MaxFormLen == 4
\* most items in the argument of a closure call made on its own
MaxKernel == 2

-----------------------------------------------------------------------------
(* Reserved symbols of the source *)

Epsilon == "ε"
EndMarker == "$"
None == "None"

Range(s) == {s[i] : i \in 1..Len(s)}

Rule(left, right) == [left |-> left, right |-> right]

-----------------------------------------------------------------------------
(* grammar.py *)

\* Grammar.first_sequence: the loop reads self.first[symbol] and raises KeyError
\* on a symbol that is no key of the dict.
RECURSIVE FirstSeqLoop(_, _, _, _)
FirstSeqLoop(first, symbols, i, acc) ==
  IF i > Len(symbols)
  THEN [raised |-> FALSE, value |-> acc \cup {Epsilon}]
  ELSE IF symbols[i] \notin DOMAIN first
       THEN [raised |-> TRUE, value |-> acc]
       ELSE IF Epsilon \notin first[symbols[i]]
            THEN [raised |-> FALSE, value |-> acc \cup (first[symbols[i]] \ {Epsilon})]
            ELSE FirstSeqLoop(first, symbols, i + 1,
                              acc \cup (first[symbols[i]] \ {Epsilon}))

first_sequence(first, symbols) == FirstSeqLoop(first, symbols, 1, {})

\* Mutant of FirstOfRule: the else branch of the while loop is lost, so eps is
\* not added when every symbol of the right-hand side is nullable.
RECURSIVE FirstOfRuleNoEpsilon(_, _, _, _)
FirstOfRuleNoEpsilon(first, left, right, i) ==
  IF i >= Len(right)
  THEN [raised |-> FALSE, first |-> first]
  ELSE LET symbol == right[i + 1] IN
       IF symbol \notin DOMAIN first
       THEN [raised |-> TRUE, first |-> first]
       ELSE LET f2 == [first EXCEPT ![left] = @ \cup (first[symbol] \ {Epsilon})] IN
            IF Epsilon \notin f2[symbol]
            THEN [raised |-> FALSE, first |-> f2]
            ELSE FirstOfRuleNoEpsilon(f2, left, right, i + 1)

\* The while loop of compute_first over one right-hand side (idx is 0-based).
RECURSIVE FirstOfRule(_, _, _, _)
FirstOfRule(first, left, right, i) ==
  IF i >= Len(right)
  THEN [raised |-> FALSE, first |-> [first EXCEPT ![left] = @ \cup {Epsilon}]]
  ELSE LET symbol == right[i + 1] IN
       IF symbol \notin DOMAIN first
       THEN [raised |-> TRUE, first |-> first]
       ELSE LET f2 == [first EXCEPT ![left] = @ \cup (first[symbol] \ {Epsilon})] IN
            IF Epsilon \notin f2[symbol]
            THEN [raised |-> FALSE, first |-> f2]
            ELSE FirstOfRule(f2, left, right, i + 1)

\* One pass of "for rule in self.rules" in compute_first.
RECURSIVE FirstPass(_, _, _, _)
FirstPass(first, rules, k, changed) ==
  IF k > Len(rules)
  THEN [raised |-> FALSE, first |-> first, changed |-> changed]
  ELSE LET left == rules[k].left
           right == rules[k].right
       IN IF left \notin DOMAIN first
          THEN [raised |-> TRUE, first |-> first, changed |-> changed]
          ELSE LET r == IF right = <<>>
                        THEN [raised |-> FALSE,
                              first |-> [first EXCEPT ![left] = @ \cup {Epsilon}]]
                        ELSE FirstOfRule(first, left, right, 0)
               IN IF r.raised
                  THEN [raised |-> TRUE, first |-> first, changed |-> changed]
                  ELSE FirstPass(r.first, rules, k + 1,
                                 changed \/ Cardinality(r.first[left]) > Cardinality(first[left]))

RECURSIVE FirstLoop(_, _)
FirstLoop(first, rules) ==
  LET p == FirstPass(first, rules, 1, FALSE) IN
  IF p.raised \/ ~p.changed THEN p ELSE FirstLoop(p.first, rules)

\* Grammar.compute_first
compute_first(non_terminals, terminals, rules) ==
  FirstLoop([s \in non_terminals \cup terminals |-> IF s \in terminals THEN {s} ELSE {}],
            rules)

\* The body of "for idx, B in enumerate(right)" in compute_follow (i is 1-based).
RECURSIVE FollowOfRule(_, _, _, _, _, _)
FollowOfRule(first, follow, left, right, i, changed) ==
  IF i > Len(right)
  THEN [raised |-> FALSE, follow |-> follow, changed |-> changed]
  ELSE LET B == right[i] IN
       IF B \notin DOMAIN follow
       THEN FollowOfRule(first, follow, left, right, i + 1, changed)
       ELSE IF i < Len(right)
            THEN LET fb == first_sequence(first, SubSeq(right, i + 1, Len(right))) IN
                 IF fb.raised
                 THEN [raised |-> TRUE, follow |-> follow, changed |-> changed]
                 ELSE LET f1 == [follow EXCEPT ![B] = @ \cup (fb.value \ {Epsilon})] IN
                      IF Epsilon \in fb.value
                      THEN IF left \notin DOMAIN follow
                           THEN [raised |-> TRUE, follow |-> follow, changed |-> changed]
                           ELSE LET f2 == [f1 EXCEPT ![B] = @ \cup f1[left]] IN
                                FollowOfRule(first, f2, left, right, i + 1,
                                  changed \/ Cardinality(f2[B]) > Cardinality(follow[B]))
                      ELSE FollowOfRule(first, f1, left, right, i + 1,
                             changed \/ Cardinality(f1[B]) > Cardinality(follow[B]))
            ELSE IF left \notin DOMAIN follow
                 THEN [raised |-> TRUE, follow |-> follow, changed |-> changed]
                 ELSE LET f2 == [follow EXCEPT ![B] = @ \cup follow[left]] IN
                      FollowOfRule(first, f2, left, right, i + 1,
                        changed \/ Cardinality(f2[B]) > Cardinality(follow[B]))

RECURSIVE FollowPass(_, _, _, _, _)
FollowPass(first, follow, rules, k, changed) ==
  IF k > Len(rules)
  THEN [raised |-> FALSE, follow |-> follow, changed |-> changed]
  ELSE LET r == FollowOfRule(first, follow, rules[k].left, rules[k].right, 1, changed) IN
       IF r.raised THEN r ELSE FollowPass(first, r.follow, rules, k + 1, r.changed)

RECURSIVE FollowLoop(_, _, _)
FollowLoop(first, follow, rules) ==
  LET p == FollowPass(first, follow, rules, 1, FALSE) IN
  IF p.raised \/ ~p.changed THEN p ELSE FollowLoop(first, p.follow, rules)

\* Grammar.compute_follow
compute_follow(non_terminals, augmented_start, first, rules) ==
  FollowLoop(first,
             [s \in non_terminals |-> IF s = augmented_start THEN {EndMarker} ELSE {}],
             rules)

\* The augmented start symbol synthesised by Grammar.__init__
AugmentedStart(start_symbol) == start_symbol \o "'"

\* Grammar.__init__: returns the object, or raised = TRUE when compute_first or
\* compute_follow raises KeyError.
GrammarInit(a) ==
  LET augmented_start == AugmentedStart(a.start_symbol)
      non_terminals == Range(a.non_terminals) \cup {augmented_start}
      terminals == Range(a.terminals)
      rules == <<Rule(augmented_start, <<a.start_symbol>>)>> \o a.rules
      f == compute_first(non_terminals, terminals, rules)
      fo == compute_follow(non_terminals, augmented_start, f.first, rules)
  IN IF f.raised \/ fo.raised
     THEN [raised |-> TRUE]
     ELSE [raised |-> FALSE,
           non_terminals |-> non_terminals,
           terminals |-> terminals,
           rules |-> rules,
           start_symbol |-> a.start_symbol,
           augmented_start |-> augmented_start,
           first |-> f.first,
           follow |-> fo.follow]

-----------------------------------------------------------------------------
(* parser.py: LR1Item *)

LR1Item(left, right, dot, lookahead) ==
  [left |-> left, right |-> right, dot |-> dot, lookahead |-> lookahead]

\* LR1Item.next_symbol
next_symbol(item) ==
  IF item.dot < Len(item.right) THEN item.right[item.dot + 1] ELSE None

\* LR1Item.is_complete
is_complete(item) == item.dot >= Len(item.right)

-----------------------------------------------------------------------------
(* parser.py: LR1Parser.closure, goto, build_states *)

\* Mutant of ClosureLookaheads: FIRST(beta) is ignored, the lookahead of the
\* item is handed down as it is.
ClosureLookaheadsNoFirst(g, item) == {item.lookahead}

\* Mutant of ClosureLookaheads: the lookaheads are FOLLOW of the nonterminal
\* after the dot, as in an SLR construction.
ClosureLookaheadsFollow(g, item) == g.follow[next_symbol(item)]

\* The lookaheads closure computes for the items it adds for item.
ClosureLookaheads(g, item) ==
  LET beta == SubSeq(item.right, item.dot + 2, Len(item.right)) IN
  IF beta # <<>>
  THEN LET first_beta == first_sequence(g.first, beta).value IN
       IF Epsilon \in first_beta
       THEN (first_beta \ {Epsilon}) \cup {item.lookahead}
       ELSE first_beta
  ELSE {item.lookahead}

\* The items one dequeued item makes closure consider.
ClosureNewItems(g, item) ==
  LET next_sym == next_symbol(item) IN
  IF next_sym # None /\ next_sym \in g.non_terminals
  THEN {LR1Item(g.rules[k].left, g.rules[k].right, 0, la) :
          k \in {n \in 1..Len(g.rules) : g.rules[n].left = next_sym},
          la \in ClosureLookaheads(g, item)}
  ELSE {}

\* Mutant of ClosureLoop: the new items are added to the set but not to the
\* queue ("queue.append(new_item)" is lost), so nothing is derived from them.
ClosureLoopNoRequeue(g, closure_set, queue) ==
  closure_set \cup UNION {ClosureNewItems(g, item) : item \in queue}

\* The while loop of closure: queue holds the items still to be processed.
RECURSIVE ClosureLoop(_, _, _)
ClosureLoop(g, closure_set, queue) ==
  IF queue = {}
  THEN closure_set
  ELSE LET item == CHOOSE i \in queue : TRUE
           new == ClosureNewItems(g, item) \ closure_set
       IN ClosureLoop(g, closure_set \cup new, (queue \ {item}) \cup new)

\* Mutant of closure: one "for item in items" pass over the argument instead
\* of the work queue.
closureSinglePass(g, items) == items \cup UNION {ClosureNewItems(g, item) : item \in items}

\* LR1Parser.closure
closure(g, items) == ClosureLoop(g, items, items)

\* LR1Parser.goto
goto(g, items, symbol) ==
  LET goto_set == {LR1Item(item.left, item.right, item.dot + 1, item.lookahead) :
                     item \in {i \in items : next_symbol(i) = symbol}}
  IN IF goto_set # {} THEN closure(g, goto_set) ELSE {}

\* list.index on the 0-indexed list of states
IndexOf(sts, I) == (CHOOSE k \in 1..Len(sts) : sts[k] = I /\ \A j \in 1..(k - 1) : sts[j] # I) - 1

\* Mutant of BuildStatesSymbols: the target of a transition is taken to be the
\* last state of the list ("to_state = len(self.states) - 1"), which is right
\* only when the state has just been appended.
RECURSIVE BuildStatesSymbolsLastIndex(_, _, _, _, _, _, _)
BuildStatesSymbolsLastIndex(g, order, sts, trans, queue, I, k) ==
  IF k > Len(order)
  THEN [states |-> sts, transitions |-> trans, queue |-> queue]
  ELSE LET goto_I == goto(g, I, order[k]) IN
       IF goto_I = {}
       THEN BuildStatesSymbolsLastIndex(g, order, sts, trans, queue, I, k + 1)
       ELSE LET isnew == \A j \in 1..Len(sts) : sts[j] # goto_I
                sts2 == IF isnew THEN Append(sts, goto_I) ELSE sts
                queue2 == IF isnew THEN Append(queue, goto_I) ELSE queue
                t == <<IndexOf(sts2, I), order[k], Len(sts2) - 1>>
            IN BuildStatesSymbolsLastIndex(g, order, sts2, Append(trans, t), queue2, I, k + 1)

\* The inner "for symbol in ..." loop of build_states for one dequeued state I;
\* order is the iteration order of the symbol set.
RECURSIVE BuildStatesSymbols(_, _, _, _, _, _, _)
BuildStatesSymbols(g, order, sts, trans, queue, I, k) ==
  IF k > Len(order)
  THEN [states |-> sts, transitions |-> trans, queue |-> queue]
  ELSE LET goto_I == goto(g, I, order[k]) IN
       IF goto_I = {}
       THEN BuildStatesSymbols(g, order, sts, trans, queue, I, k + 1)
       ELSE LET isnew == \A j \in 1..Len(sts) : sts[j] # goto_I
                sts2 == IF isnew THEN Append(sts, goto_I) ELSE sts
                queue2 == IF isnew THEN Append(queue, goto_I) ELSE queue
                t == <<IndexOf(sts2, I), order[k], IndexOf(sts2, goto_I)>>
            IN BuildStatesSymbols(g, order, sts2, Append(trans, t), queue2, I, k + 1)

\* The "while queue" loop of build_states.
RECURSIVE BuildStatesLoop(_, _, _, _, _)
BuildStatesLoop(g, order, sts, trans, queue) ==
  IF queue = <<>>
  THEN [states |-> sts, transitions |-> trans]
  ELSE LET r == BuildStatesSymbols(g, order, sts, trans, Tail(queue), Head(queue), 1) IN
       BuildStatesLoop(g, order, r.states, r.transitions, r.queue)

\* LR1Parser.build_states
build_states(g, order) ==
  LET initial_item == LR1Item(g.augmented_start, <<g.start_symbol>>, 0, EndMarker)
      I0 == closure(g, {initial_item})
  IN BuildStatesLoop(g, order, <<I0>>, <<>>, <<I0>>)

-----------------------------------------------------------------------------
(* parser.py: LR1Parser.build_tables *)

EmptyDict == [x \in {} |-> {}]

\* d[key] = value on a dict
DictSet(d, key, value) == [x \in DOMAIN d \cup {key} |-> IF x = key THEN value ELSE d[x]]

\* Mutant of ItemRequest: shifts are entered for the nonterminals after the dot
\* instead of the terminals.
ItemRequestShiftOnNonterminal(g, sts, i, item) ==
  IF is_complete(item)
  THEN IF item.left = g.augmented_start
       THEN IF item.lookahead = EndMarker THEN <<EndMarker, <<"accept">>>> ELSE <<>>
       ELSE <<item.lookahead, <<"reduce", item.left, item.right>>>>
  ELSE LET next_sym == next_symbol(item) IN
       IF next_sym \in g.non_terminals
       THEN LET goto_I == goto(g, sts[i + 1], next_sym) IN
            IF goto_I # {} THEN <<next_sym, <<"shift", IndexOf(sts, goto_I)>>>> ELSE <<>>
       ELSE <<>>

\* The dict key and the action one item of state number i asks for, as
\* <<key, action>>; <<>> when the item asks for none.
ItemRequest(g, sts, i, item) ==
  IF is_complete(item)
  THEN IF item.left = g.augmented_start
       THEN IF item.lookahead = EndMarker THEN <<EndMarker, <<"accept">>>> ELSE <<>>
       ELSE <<item.lookahead, <<"reduce", item.left, item.right>>>>
  ELSE LET next_sym == next_symbol(item) IN
       IF next_sym \in g.terminals
       THEN LET goto_I == goto(g, sts[i + 1], next_sym) IN
            IF goto_I # {} THEN <<next_sym, <<"shift", IndexOf(sts, goto_I)>>>> ELSE <<>>
       ELSE <<>>

\* Mutant of BuildTablesItem: the cell is written without a look at what it
\* holds, the last item wins.
BuildTablesItemOverwrite(g, sts, at, i, item) ==
  LET req == ItemRequest(g, sts, i, item) IN
  IF req = <<>>
  THEN [conflict |-> FALSE, action_table |-> at]
  ELSE [conflict |-> FALSE,
        action_table |-> [at EXCEPT ![i + 1] = DictSet(@, req[1], req[2])]]

\* The body of "for item in I" of build_tables for one item of state number i:
\* conflict = TRUE is the "return False" of the source.
BuildTablesItem(g, sts, at, i, item) ==
  LET req == ItemRequest(g, sts, i, item) IN
  IF req = <<>>
  THEN [conflict |-> FALSE, action_table |-> at]
  ELSE IF req[1] \in DOMAIN at[i + 1]
       THEN [conflict |-> at[i + 1][req[1]] # req[2], action_table |-> at]
       ELSE [conflict |-> FALSE,
             action_table |-> [at EXCEPT ![i + 1] = DictSet(@, req[1], req[2])]]

\* Mutant of BuildGoto: only the transitions on the start symbol are recorded.
RECURSIVE BuildGotoStartOnly(_, _, _, _)
BuildGotoStartOnly(g, trans, gt, k) ==
  IF k > Len(trans)
  THEN gt
  ELSE IF trans[k][2] \in g.non_terminals /\ trans[k][2] = g.start_symbol
       THEN BuildGotoStartOnly(g, trans,
                      [gt EXCEPT ![trans[k][1] + 1] = DictSet(@, trans[k][2], trans[k][3])],
                      k + 1)
       ELSE BuildGotoStartOnly(g, trans, gt, k + 1)

\* The loop "for from_state, symbol, to_state in self.transitions" of build_tables.
RECURSIVE BuildGoto(_, _, _, _)
BuildGoto(g, trans, gt, k) ==
  IF k > Len(trans)
  THEN gt
  ELSE IF trans[k][2] \in g.non_terminals
       THEN BuildGoto(g, trans,
                      [gt EXCEPT ![trans[k][1] + 1] = DictSet(@, trans[k][2], trans[k][3])],
                      k + 1)
       ELSE BuildGoto(g, trans, gt, k + 1)

-----------------------------------------------------------------------------
(* The inputs: the arguments of Grammar(...) *)

Input(non_terminals, terminals, rules, start_symbol) ==
  [non_terminals |-> non_terminals, terminals |-> terminals,
   rules |-> rules, start_symbol |-> start_symbol]

\* Productions over the nonterminals S, A and the terminals a, b from which small
\* grammars are drawn.
RulePool ==
  << Rule("S", <<"A">>),
     Rule("S", <<"S", "a">>),
     Rule("S", <<"a", "S", "b">>),
     Rule("S", <<>>),
     Rule("S", <<"A", "b">>),
     Rule("S", <<"b">>),
     Rule("A", <<"a", "A">>),
     Rule("A", <<>>) >>

\* The productions of RulePool with their index in picked, in the pool's order.
RECURSIVE PickRules(_, _)
PickRules(picked, k) ==
  IF k > Len(RulePool)
  THEN <<>>
  ELSE IF k \in picked
       THEN <<RulePool[k]>> \o PickRules(picked, k + 1)
       ELSE PickRules(picked, k + 1)

PoolInputs ==
  {Input(<<"S", "A">>, <<"a", "b">>, PickRules(picked, 1), "S") :
     picked \in {p \in SUBSET (1..Len(RulePool)) : Cardinality(p) \in 1..MaxRules}}

\* tests/test_parser.py: test_epsilon_production
EpsilonInput ==
  Input(<<"S", "A">>, <<"a">>,
        <<Rule("S", <<"A">>), Rule("A", <<"a", "A">>), Rule("A", <<>>)>>, "S")
\* tests/test_parser.py: test_left_recursion
LeftRecursionInput ==
  Input(<<"S">>, <<"a", "b">>,
        <<Rule("S", <<"S", "a">>), Rule("S", <<"b">>)>>, "S")
\* tests/test_parser.py: test_non_lr1_grammar
NonLR1TestInput ==
  Input(<<"S", "A">>, <<"a", "b", "c", "d">>,
        <<Rule("S", <<"A", "a">>), Rule("S", <<"A", "b">>),
          Rule("A", <<"c">>), Rule("A", <<"d">>)>>, "S")
\* tests/test_parser.py: test_multiple_rules
MultipleRulesInput ==
  Input(<<"S", "A", "B", "C">>, <<"a", "b", "c">>,
        <<Rule("S", <<"A", "B">>), Rule("S", <<"B", "C">>),
          Rule("A", <<"a">>), Rule("A", <<>>),
          Rule("B", <<"b">>),
          Rule("C", <<"c">>), Rule("C", <<>>)>>, "S")
\* tests/test_parser.py: test_complex_grammar
ComplexInput ==
  Input(<<"S", "C">>, <<"c", "d">>,
        <<Rule("S", <<"C", "C">>), Rule("C", <<"c", "C">>), Rule("C", <<"d">>)>>, "S")

TestInputs ==
  {EpsilonInput, LeftRecursionInput, NonLR1TestInput, MultipleRulesInput, ComplexInput}

\* S -> Aa | bAc | dc | bda, A -> d
DocumentedInput ==
  Input(<<"S", "A">>, <<"a", "b", "c", "d">>,
        <<Rule("S", <<"A", "a">>), Rule("S", <<"b", "A", "c">>), Rule("S", <<"d", "c">>),
          Rule("S", <<"b", "d", "a">>), Rule("A", <<"d">>)>>, "S")

\* Inputs that break the invariants of a grammar: a start symbol that is no
\* declared nonterminal, and declared symbols that already hold the name of the
\* augmented start.
BadStartInputs ==
  {[a EXCEPT !.start_symbol = s] :
     a \in {EpsilonInput, LeftRecursionInput, ComplexInput},
     s \in {"a", "b", "d", "X"}}

CollisionInputs ==
  { Input(<<"S", "S'">>, <<"a", "b">>,
          <<Rule("S", <<"S'", "b">>), Rule("S'", <<"a">>)>>, "S"),
    Input(<<"S", "S'">>, <<"a", "b">>,
          <<Rule("S", <<"a">>), Rule("S'", <<"b">>)>>, "S"),
    Input(<<"S", "S'">>, <<"a", "b">>,
          <<Rule("S", <<"S'">>), Rule("S'", <<"a">>)>>, "S"),
    Input(<<"S">>, <<"a", "S'">>,
          <<Rule("S", <<"a", "S'">>)>>, "S") }

\* Grammars that declare the character '$' as a terminal: Grammar.__init__
\* takes them as they are.
EndMarkerInputs ==
  { Input(<<"S">>, <<"a", EndMarker>>, <<Rule("S", <<"a", EndMarker>>)>>, "S"),
    Input(<<"S">>, <<EndMarker>>, <<Rule("S", <<EndMarker>>)>>, "S") }

Inputs ==
  PoolInputs \cup TestInputs \cup {DocumentedInput} \cup BadStartInputs
    \cup CollisionInputs \cup EndMarkerInputs

\* The predict calls that may be in progress at once.
Calls == {1, 2}

\* The one-character strings among the symbols of the inputs: predict takes a
\* str and splits it into its characters, so a word holds only these.
Chars == {"a", "b", "c", "d", "S", "A", "B", "C", "X", "$"}

\* The symbols query words are made of: the declared terminals, the end marker
\* and the name of a nonterminal.
WordSymbols(a) == (Range(a.terminals) \cup {EndMarker, a.non_terminals[1]}) \cap Chars

Words(a) == UNION {[1..n -> WordSymbols(a)] : n \in 0..MaxWordLen}

\* Iteration orders of the set non_terminals.union(terminals): the declared
\* order without repetitions, rotated.
RECURSIVE Dedup(_)
Dedup(s) ==
  IF s = <<>> THEN <<>>
  ELSE LET front == Dedup(SubSeq(s, 1, Len(s) - 1)) IN
       IF s[Len(s)] \in Range(front) THEN front ELSE Append(front, s[Len(s)])

Rotate(s, r) == [i \in 1..Len(s) |-> s[((i - 1 + r) % Len(s)) + 1]]

SymbolOrders(a) ==
  LET base == Dedup(a.non_terminals \o a.terminals \o <<AugmentedStart(a.start_symbol)>>)
  IN {Rotate(base, r) : r \in 0..MaxRotation}

-----------------------------------------------------------------------------
(* The state machine *)

\* A local of main: not yet assigned, or holding a value.
Unbound == [bound |-> FALSE]

Bound(v) == [bound |-> TRUE, value |-> v]

Init ==
  /\ args \in Inputs
  /\ pc = "new"
  /\ grammar = [raised |-> TRUE]
  /\ states = <<>>
  /\ transitions = <<>>
  /\ action_table = <<>>
  /\ goto_table = <<>>
  /\ bt_idx = 0
  /\ bt_todo = {}
  /\ ppc = [c \in Calls |-> "idle"]
  /\ word = [c \in Calls |-> <<>>]
  /\ stack = [c \in Calls |-> <<>>]
  /\ idx = [c \in Calls |-> 0]
  /\ result = [c \in Calls |-> FALSE]
  /\ stdin = <<>>
  /\ mpc = "off"
  /\ words = Unbound
  /\ wi = 0
  /\ output = <<>>
  /\ clo_items = {}
  /\ clo_result = {}

predictVars == <<ppc, word, stack, idx, result>>

\* Grammar(non_terminals, terminals, rules, start_symbol)
Construct ==
  /\ pc = "new"
  /\ LET r == GrammarInit(args) IN
     IF r.raised
     THEN pc' = "construct_error" /\ grammar' = grammar
     ELSE pc' = "constructed" /\ grammar' = r
  /\ UNCHANGED <<mainVars, closureVars, args, states, transitions, action_table, goto_table,
                 bt_idx, bt_todo, predictVars>>

\* LR1Parser.fit up to the first item visited by build_tables: build_states and
\* the initialisation of the two tables.
FitBuildStates ==
  /\ pc = "constructed"
  /\ \E order \in SymbolOrders(args) :
       LET r == build_states(grammar, order) IN
       /\ states' = r.states
       /\ transitions' = r.transitions
       /\ action_table' = [i \in 1..Len(r.states) |-> EmptyDict]
       /\ goto_table' = [i \in 1..Len(r.states) |-> EmptyDict]
       /\ bt_idx' = 0
       /\ bt_todo' = r.states[1]
  /\ pc' = "build_tables"
  /\ UNCHANGED <<mainVars, closureVars, args, grammar, predictVars>>

\* One iteration of "for item in I" of build_tables, the items of a state being
\* visited in the iteration order of a Python set.  After the last item of the
\* last state, the GOTO loop runs and fit returns; on a conflict build_tables
\* returns False and fit raises GrammarError.
BuildTablesVisit ==
  /\ pc = "build_tables"
  /\ \E item \in bt_todo :
       LET r == BuildTablesItem(grammar, states, action_table, bt_idx, item)
           rest == bt_todo \ {item}
       IN IF r.conflict
          THEN /\ pc' = "grammar_error"
               /\ UNCHANGED <<action_table, goto_table, bt_idx, bt_todo>>
          ELSE /\ action_table' = r.action_table
               /\ IF rest # {}
                  THEN /\ bt_todo' = rest
                       /\ UNCHANGED <<pc, bt_idx, goto_table>>
                  ELSE IF bt_idx + 1 < Len(states)
                       THEN /\ bt_idx' = bt_idx + 1
                            /\ bt_todo' = states[bt_idx + 2]
                            /\ UNCHANGED <<pc, goto_table>>
                       ELSE /\ goto_table' = BuildGoto(grammar, transitions, goto_table, 1)
                            /\ pc' = "fitted"
                            /\ bt_todo' = {}
                            /\ UNCHANGED bt_idx
  /\ UNCHANGED <<mainVars, closureVars, args, grammar, states, transitions, predictVars>>

-----------------------------------------------------------------------------
(* parser.py: LR1Parser.predict *)

\* Mutant of PopStack: the reduce leaves the handle on the stack.
PopStackNone(st, right) == st

\* What the pop loop of a reduce by a production with right-hand side right
\* leaves of the stack st, when the stack is deep enough for it.
PopStack(st, right) == SubSeq(st, 1, Len(st) - Len(right))

\* Mutant of PredictIteration: the shift forgets "idx += 1", the cursor stays
\* on the symbol it has shifted.
PredictIterationNoAdvance(at, gt, w, st, i) ==
  LET state == st[Len(st)]
      current_sym == IF i < Len(w) THEN w[i + 1] ELSE EndMarker
  IN IF current_sym \notin DOMAIN at[state + 1]
     THEN [kind |-> "reject", done |-> TRUE, result |-> FALSE, stack |-> st, idx |-> i]
     ELSE LET action == at[state + 1][current_sym] IN
          IF action[1] = "shift"
          THEN [kind |-> "shift", done |-> FALSE, result |-> FALSE,
                stack |-> Append(st, action[2]), idx |-> i]
          ELSE IF action[1] = "reduce"
          THEN LET left == action[2]
                   right == action[3]
               IN IF Len(st) - 1 < Len(right)
                  THEN [kind |-> "reduce", done |-> TRUE, result |-> FALSE,
                        stack |-> <<st[1]>>, idx |-> i]
                  ELSE LET popped == PopStack(st, right)
                           top == popped[Len(popped)]
                       IN IF left \notin DOMAIN gt[top + 1]
                          THEN [kind |-> "reduce", done |-> TRUE, result |-> FALSE,
                                stack |-> popped, idx |-> i]
                          ELSE [kind |-> "reduce", done |-> FALSE, result |-> FALSE,
                                stack |-> Append(popped, gt[top + 1][left]), idx |-> i]
          ELSE [kind |-> "accept", done |-> TRUE, result |-> TRUE, stack |-> st, idx |-> i]

\* One iteration of the "while True" loop of predict on the local word w, stack
\* st and cursor i, against the tables at and gt.  kind names the branch taken;
\* done = TRUE is a return, of the value result.
PredictIteration(at, gt, w, st, i) ==
  LET state == st[Len(st)]
      current_sym == IF i < Len(w) THEN w[i + 1] ELSE EndMarker
  IN IF current_sym \notin DOMAIN at[state + 1]
     THEN [kind |-> "reject", done |-> TRUE, result |-> FALSE, stack |-> st, idx |-> i]
     ELSE LET action == at[state + 1][current_sym] IN
          IF action[1] = "shift"
          THEN [kind |-> "shift", done |-> FALSE, result |-> FALSE,
                stack |-> Append(st, action[2]), idx |-> i + 1]
          ELSE IF action[1] = "reduce"
          THEN LET left == action[2]
                   right == action[3]
               IN IF Len(st) - 1 < Len(right)
                  THEN \* the pop loop reaches len(stack) == 1: return False
                       [kind |-> "reduce", done |-> TRUE, result |-> FALSE,
                        stack |-> <<st[1]>>, idx |-> i]
                  ELSE LET popped == PopStack(st, right)
                           top == popped[Len(popped)]
                       IN IF left \notin DOMAIN gt[top + 1]
                          THEN [kind |-> "reduce", done |-> TRUE, result |-> FALSE,
                                stack |-> popped, idx |-> i]
                          ELSE [kind |-> "reduce", done |-> FALSE, result |-> FALSE,
                                stack |-> Append(popped, gt[top + 1][left]), idx |-> i]
          ELSE \* action[0] == 'accept'
               [kind |-> "accept", done |-> TRUE, result |-> TRUE, stack |-> st, idx |-> i]

\* The iteration the call c is about to run.
Iteration(c) == PredictIteration(action_table, goto_table, word[c], stack[c], idx[c])

\* The whole loop of predict on the word w (with its '$'), from the stack st and
\* the cursor i, cut after fuel iterations: finished = FALSE when it is cut.
RECURSIVE PredictLoop(_, _, _, _, _, _)
PredictLoop(at, gt, w, st, i, fuel) ==
  IF fuel = 0
  THEN [finished |-> FALSE, result |-> FALSE]
  ELSE LET it == PredictIteration(at, gt, w, st, i) IN
       IF it.done
       THEN [finished |-> TRUE, result |-> it.result]
       ELSE PredictLoop(at, gt, w, it.stack, it.idx, fuel - 1)

\* LR1Parser.predict, run from its first line to its return.
predict(at, gt, w) == PredictLoop(at, gt, w \o <<EndMarker>>, <<0>>, 0, MaxIterations)

\* predict(w) is called: the locals are initialised.
PredictCall(c, w) ==
  /\ pc = "fitted"
  /\ ppc[c] = "idle"
  /\ word' = [word EXCEPT ![c] = w \o <<EndMarker>>]
  /\ stack' = [stack EXCEPT ![c] = <<0>>]
  /\ idx' = [idx EXCEPT ![c] = 0]
  /\ result' = [result EXCEPT ![c] = FALSE]
  /\ ppc' = [ppc EXCEPT ![c] = "run"]
  /\ UNCHANGED <<mainVars, closureVars, args, pc, parserVars, bt_idx, bt_todo>>

PredictStart(c) == \E w \in Words(args) : PredictCall(c, w)

\* Mutant of PredictApply: the stack is kept in the parser object, one for all
\* the calls, instead of a local of each call.
PredictApplyShared(c, it) ==
  /\ stack' = [d \in Calls |-> it.stack]
  /\ idx' = [idx EXCEPT ![c] = it.idx]
  /\ result' = [result EXCEPT ![c] = it.result]
  /\ ppc' = [ppc EXCEPT ![c] = IF it.done THEN "done" ELSE "run"]
  /\ UNCHANGED <<mainVars, closureVars, args, pc, parserVars, bt_idx, bt_todo, word>>

\* The effect of one loop iteration of the call c on its locals.
PredictApply(c, it) ==
  /\ stack' = [stack EXCEPT ![c] = it.stack]
  /\ idx' = [idx EXCEPT ![c] = it.idx]
  /\ result' = [result EXCEPT ![c] = it.result]
  /\ ppc' = [ppc EXCEPT ![c] = IF it.done THEN "done" ELSE "run"]
  /\ UNCHANGED <<mainVars, closureVars, args, pc, parserVars, bt_idx, bt_todo, word>>

\* "if action is None: return False"
PredictReject(c) ==
  /\ ppc[c] = "run"
  /\ Iteration(c).kind = "reject"
  /\ PredictApply(c, Iteration(c))

\* "if action[0] == 'shift'"
PredictShift(c) ==
  /\ ppc[c] = "run"
  /\ Iteration(c).kind = "shift"
  /\ PredictApply(c, Iteration(c))

\* "elif action[0] == 'reduce'"
PredictReduce(c) ==
  /\ ppc[c] = "run"
  /\ Iteration(c).kind = "reduce"
  /\ PredictApply(c, Iteration(c))

\* "elif action[0] == 'accept': return True"
PredictAccept(c) ==
  /\ ppc[c] = "run"
  /\ Iteration(c).kind = "accept"
  /\ PredictApply(c, Iteration(c))

\* The call c has returned: its locals are gone and the caller may call again.
PredictReturn(c) ==
  /\ ppc[c] = "done"
  /\ ppc' = [ppc EXCEPT ![c] = "idle"]
  /\ word' = [word EXCEPT ![c] = <<>>]
  /\ stack' = [stack EXCEPT ![c] = <<>>]
  /\ idx' = [idx EXCEPT ![c] = 0]
  /\ result' = [result EXCEPT ![c] = FALSE]
  /\ UNCHANGED <<mainVars, closureVars, args, pc, parserVars, bt_idx, bt_todo>>

PredictStep(c) ==
  \/ PredictReject(c)
  \/ PredictShift(c)
  \/ PredictReduce(c)
  \/ PredictAccept(c)
  \/ PredictReturn(c)

\* One caller: predict calls follow one another.
Next ==
  \/ Construct
  \/ FitBuildStates
  \/ BuildTablesVisit
  \/ PredictStart(1)
  \/ PredictStep(1)

Spec == Init /\ [][Next]_vars

\* Several callers: once fit has returned, predict calls run at the same time,
\* their loop iterations interleaved.
ConcurrentInputs == {EpsilonInput, LeftRecursionInput}

ConcurrentWords(a) == UNION {[1..n -> WordSymbols(a)] : n \in 0..MaxConcurrentWordLen}

InitConcurrent == Init /\ args \in ConcurrentInputs

ConcurrentPredictStart(c) == \E w \in ConcurrentWords(args) : PredictCall(c, w)

NextConcurrent ==
  \/ Construct
  \/ FitBuildStates
  \/ BuildTablesVisit
  \/ \E c \in Calls : ConcurrentPredictStart(c)
  \/ \E c \in Calls : PredictStep(c)

SpecConcurrent == InitConcurrent /\ [][NextConcurrent]_vars

-----------------------------------------------------------------------------
(* main.py: read_input and main.  A line of the standard input is a list of *)
(* its characters.                                                          *)

Space == " "

Digits == <<"0", "1", "2", "3", "4", "5", "6", "7", "8", "9">>

\* The characters the regular expression class \w matches, among those the
\* inputs hold.
WordChars == {"S", "A", "B", "a", "b", "c", "x", "_"} \cup Range(Digits)

\* str.strip(), the only whitespace of the inputs being the space.
RECURSIVE LStrip(_)
LStrip(l) == IF l # <<>> /\ l[1] = Space THEN LStrip(Tail(l)) ELSE l

RECURSIVE RStrip(_)
RStrip(l) == IF l # <<>> /\ l[Len(l)] = Space THEN RStrip(SubSeq(l, 1, Len(l) - 1)) ELSE l

Strip(l) == RStrip(LStrip(l))

\* str.split() without arguments: the maximal pieces without whitespace.
RECURSIVE SplitLoop(_, _, _)
SplitLoop(l, cur, acc) ==
  IF l = <<>>
  THEN IF cur = <<>> THEN acc ELSE Append(acc, cur)
  ELSE IF l[1] = Space
       THEN SplitLoop(Tail(l), <<>>, IF cur = <<>> THEN acc ELSE Append(acc, cur))
       ELSE SplitLoop(Tail(l), Append(cur, l[1]), acc)

Split(l) == SplitLoop(l, <<>>, <<>>)

\* The str a list of characters spells.
RECURSIVE Join(_)
Join(l) == IF l = <<>> THEN "" ELSE l[1] \o Join(Tail(l))

RECURSIVE DigitsValue(_)
DigitsValue(t) ==
  IF t = <<>> THEN 0
  ELSE 10 * DigitsValue(SubSeq(t, 1, Len(t) - 1))
       + (CHOOSE d \in 0..9 : Digits[d + 1] = t[Len(t)])

\* int(t): surrounding whitespace is dropped; a text that is not a run of
\* digits raises ValueError (the inputs hold no sign and no underscore).
int(t) ==
  LET body == Strip(t) IN
  IF body # <<>> /\ Range(body) \subseteq Range(Digits)
  THEN [raised |-> FALSE, value |-> DigitsValue(body)]
  ELSE [raised |-> TRUE]

\* The length of the longest prefix of l made of \w characters.
RECURSIVE WordPrefixLen(_)
WordPrefixLen(l) ==
  IF l # <<>> /\ l[1] \in WordChars THEN 1 + WordPrefixLen(Tail(l)) ELSE 0

\* re.match(r'(\w+)->(.*)', line) with what the source makes of its groups.
MatchRule(l) ==
  LET k == WordPrefixLen(l) IN
  IF k >= 1 /\ Len(l) >= k + 2 /\ l[k + 1] = "-" /\ l[k + 2] = ">"
  THEN [matched |-> TRUE,
        left |-> Join(SubSeq(l, 1, k)),
        right_symbols |-> Strip(SubSeq(l, k + 3, Len(l)))]
  ELSE [matched |-> FALSE]

Raise(kind) == [raised |-> TRUE, kind |-> kind]

\* The loop "for _ in range(P)" of read_input, count rules still to read, the
\* cursor at the 0-based line i.
RECURSIVE ReadRules(_, _, _, _)
ReadRules(lines, i, count, rules) ==
  IF count <= 0
  THEN [raised |-> FALSE, idx |-> i, rules |-> rules]
  ELSE IF i >= Len(lines)
       THEN Raise("GrammarError")
       ELSE LET m == MatchRule(Strip(lines[i + 1])) IN
            IF m.matched
            THEN ReadRules(lines, i + 1, count - 1, Append(rules, Rule(m.left, m.right_symbols)))
            ELSE Raise("GrammarError")

\* The loop "for _ in range(m)" of read_input.
RECURSIVE ReadWords(_, _, _, _)
ReadWords(lines, i, count, ws) ==
  IF count <= 0
  THEN [raised |-> FALSE, idx |-> i, words |-> ws]
  ELSE IF i >= Len(lines)
       THEN Raise("GrammarError")
       ELSE ReadWords(lines, i + 1, count - 1, Append(ws, Strip(lines[i + 1])))

\* read_input() on the lines of the standard input: the exception it raises,
\* or the Grammar it has constructed and the words.
read_input(lines) ==
  IF 0 >= Len(lines) THEN Raise("GrammarError")
  ELSE LET header == Split(lines[1]) IN
  IF Len(header) # 3 \/ \E k \in 1..Len(header) : int(header[k]).raised
  THEN Raise("ValueError")
  ELSE LET P == int(header[3]).value IN
  IF 1 >= Len(lines) THEN Raise("GrammarError")
  ELSE LET non_terminals == Strip(lines[2]) IN
  IF 2 >= Len(lines) THEN Raise("GrammarError")
  ELSE LET terminals == Strip(lines[3])
           rr == ReadRules(lines, 3, P, <<>>)
       IN
  IF rr.raised THEN rr
  ELSE IF rr.idx >= Len(lines) THEN Raise("GrammarError")
  ELSE LET start_symbol == Join(Strip(lines[rr.idx + 1])) IN
  IF rr.idx + 1 >= Len(lines) THEN Raise("GrammarError")
  ELSE LET m == int(lines[rr.idx + 2]) IN
  IF m.raised THEN Raise("ValueError")
  ELSE LET rw == ReadWords(lines, rr.idx + 2, m.value, <<>>) IN
  IF rw.raised THEN rw
  ELSE LET a == Input(non_terminals, terminals, rr.rules, start_symbol)
           g == GrammarInit(a)
       IN IF g.raised
          THEN Raise("KeyError")
          ELSE [raised |-> FALSE, args |-> a, grammar |-> g, words |-> rw.words]

\* The grammar S -> A, A -> aA | eps with the words aa and b.
EpsilonStdin ==
  << <<"2", " ", "1", " ", "3">>,
     <<"S", "A">>,
     <<"a">>,
     <<"S", "-", ">", "A">>,
     <<"A", "-", ">", "a", "A">>,
     <<"A", "-", ">">>,
     <<"S">>,
     <<"2">>,
     <<"a", "a">>,
     <<"b">> >>

\* The grammar S -> a | A, A -> a, which is not LR(1), with the words a and the empty word.
AmbiguousStdin ==
  << <<"2", " ", "1", " ", "3">>,
     <<"S", "A">>,
     <<"a">>,
     <<"S", "-", ">", "a">>,
     <<"S", "-", ">", "A">>,
     <<"A", "-", ">", "a">>,
     <<"S">>,
     <<"2">>,
     <<"a">>,
     <<>> >>

\* The grammar S -> S a | b with blanks around its lines, and the words b, ba, a.
PaddedStdin ==
  << <<" ", "1", " ", "2", " ", " ", "2", " ">>,
     <<"S">>,
     <<"a", "b", " ">>,
     <<" ", "S", "-", ">", "S", "a">>,
     <<"S", "-", ">", "b", " ", " ">>,
     <<"S", " ">>,
     <<"3", " ">>,
     <<" ", "b">>,
     <<"b", "a">>,
     <<"a">> >>

\* A production uses the symbol B, which is declared nowhere.
UndeclaredStdin ==
  << <<"1", " ", "1", " ", "1">>,
     <<"S">>,
     <<"a">>,
     <<"S", "-", ">", "B">>,
     <<"S">>,
     <<"1">>,
     <<"a">> >>

\* The first line holds a text that is no number.
BadHeaderStdin ==
  << <<"x", " ", "1", " ", "1">>,
     <<"S">>,
     <<"a">>,
     <<"S", "-", ">", "a">>,
     <<"S">>,
     <<"1">>,
     <<"a">> >>

\* A production line without the arrow.
BadRuleStdin ==
  << <<"1", " ", "1", " ", "2">>,
     <<"S">>,
     <<"a">>,
     <<"S", "-", ">", "a">>,
     <<"S", ">", "a">>,
     <<"S">>,
     <<"1">>,
     <<"a">> >>

\* The number of words is no number.
BadCountStdin ==
  << <<"1", " ", "1", " ", "1">>,
     <<"S">>,
     <<"a">>,
     <<"S", "-", ">", "a">>,
     <<"S">>,
     <<"x">>,
     <<"a">> >>

\* The texts that end after a whole number of lines of t.
Prefixes(t) == {SubSeq(t, 1, n) : n \in 0..Len(t)}

MainInputs ==
  Prefixes(EpsilonStdin) \cup Prefixes(AmbiguousStdin) \cup Prefixes(PaddedStdin)
  \cup {UndeclaredStdin, BadHeaderStdin, BadRuleStdin, BadCountStdin}

InitMain ==
  /\ stdin \in MainInputs
  /\ mpc = "start"
  /\ words = Unbound
  /\ wi = 0
  /\ output = <<>>
  /\ clo_items = {}
  /\ clo_result = {}
  /\ args = Input(<<>>, <<>>, <<>>, "")
  /\ pc = "main"
  /\ grammar = [raised |-> TRUE]
  /\ states = <<>>
  /\ transitions = <<>>
  /\ action_table = <<>>
  /\ goto_table = <<>>
  /\ bt_idx = 0
  /\ bt_todo = {}
  /\ ppc = [c \in Calls |-> "idle"]
  /\ word = [c \in Calls |-> <<>>]
  /\ stack = [c \in Calls |-> <<>>]
  /\ idx = [c \in Calls |-> 0]
  /\ result = [c \in Calls |-> FALSE]

\* "grammar, words = read_input()": an exception goes to the handlers while
\* words is not assigned yet.
MainReadInput ==
  /\ mpc = "start"
  /\ LET r == read_input(stdin) IN
     IF r.raised
     THEN /\ mpc' = "except"
          /\ UNCHANGED <<args, pc, grammar, words>>
     ELSE /\ mpc' = "try"
          /\ args' = r.args
          /\ grammar' = r.grammar
          /\ words' = Bound(r.words)
          /\ pc' = "constructed"
  /\ UNCHANGED <<closureVars, stdin, wi, output, states, transitions, action_table, goto_table,
                 bt_idx, bt_todo, predictVars>>

\* parser.fit(grammar) has raised GrammarError: control goes to the handlers.
MainFitRaised ==
  /\ mpc = "try"
  /\ pc = "grammar_error"
  /\ mpc' = "except"
  /\ UNCHANGED <<closureVars, stdin, words, wi, output, args, pc, parserVars, bt_idx, bt_todo, predictVars>>

\* "result = parser.predict(word)" for the next word of the loop.
MainPredict ==
  /\ mpc = "try"
  /\ wi < Len(words.value)
  /\ PredictCall(1, words.value[wi + 1])

\* print("Yes" if result else "No")
MainPrint ==
  /\ mpc = "try"
  /\ ppc[1] = "done"
  /\ output' = Append(output, IF result[1] THEN "Yes" ELSE "No")
  /\ wi' = wi + 1
  /\ ppc' = [ppc EXCEPT ![1] = "idle"]
  /\ word' = [word EXCEPT ![1] = <<>>]
  /\ stack' = [stack EXCEPT ![1] = <<>>]
  /\ idx' = [idx EXCEPT ![1] = 0]
  /\ result' = [result EXCEPT ![1] = FALSE]
  /\ UNCHANGED <<closureVars, stdin, mpc, words, args, pc, parserVars, bt_idx, bt_todo>>

\* The loop over the words is over: main returns.
MainReturn ==
  /\ mpc = "try"
  /\ pc = "fitted"
  /\ ppc[1] = "idle"
  /\ wi = Len(words.value)
  /\ mpc' = "exit"
  /\ UNCHANGED <<closureVars, stdin, words, wi, output, args, pc, parserVars, bt_idx, bt_todo, predictVars>>

\* Either handler: "for _ in range(len(words)): print("No")".  Reading words
\* while it is unbound raises UnboundLocalError, which leaves main.
MainExcept ==
  /\ mpc = "except"
  /\ IF words.bound
     THEN /\ output' = output \o [i \in 1..Len(words.value) |-> "No"]
          /\ mpc' = "exit"
     ELSE /\ mpc' = "crash"
          /\ UNCHANGED output
  /\ UNCHANGED <<closureVars, stdin, words, wi, args, pc, parserVars, bt_idx, bt_todo, predictVars>>

NextMain ==
  \/ MainReadInput
  \/ FitBuildStates
  \/ BuildTablesVisit
  \/ MainFitRaised
  \/ MainPredict
  \/ PredictReject(1)
  \/ PredictShift(1)
  \/ PredictReduce(1)
  \/ PredictAccept(1)
  \/ MainPrint
  \/ MainReturn
  \/ MainExcept

SpecMain == InitMain /\ [][NextMain]_vars

-----------------------------------------------------------------------------
(* closure called on its own, on a set of items of the caller's choice *)

\* The LR(1) items of the grammar g: a production, a dot position and a
\* terminal or '$' as lookahead.
AllItems(g) ==
  UNION {{LR1Item(g.rules[k].left, g.rules[k].right, d, la) :
            d \in 0..Len(g.rules[k].right), la \in g.terminals \cup {EndMarker}} :
         k \in 1..Len(g.rules)}

\* The sets of at most n items of g.
RECURSIVE Kernels(_, _)
Kernels(g, n) ==
  IF n = 0 THEN {{}}
  ELSE LET smaller == Kernels(g, n - 1) IN
       smaller \cup {K \cup {x} : K \in smaller, x \in AllItems(g)}

ClosureInputs == TestInputs \cup {DocumentedInput} \cup CollisionInputs

InitClosure == Init /\ args \in ClosureInputs

\* parser.closure(K) on a parser whose grammar is set
ClosureCall ==
  /\ pc = "constructed"
  /\ \E K \in Kernels(grammar, MaxKernel) :
       /\ clo_items' = K
       /\ clo_result' = closure(grammar, K)
  /\ pc' = "closure_returned"
  /\ UNCHANGED <<mainVars, args, parserVars, bt_idx, bt_todo, predictVars>>

\* closure on a set of the caller's choice, or the closures build_states makes.
NextClosure ==
  \/ Construct
  \/ ClosureCall
  \/ FitBuildStates

SpecClosure == InitClosure /\ [][NextClosure]_vars

-----------------------------------------------------------------------------
(* The language of a grammar, from the definition of derivation *)

\* The invariants of a grammar: disjoint alphabets, a declared start symbol,
\* productions over declared symbols, and no reserved symbol in use.
WellFormed(a) ==
  LET N == Range(a.non_terminals)
      T == Range(a.terminals)
  IN /\ N \cap T = {}
     /\ a.start_symbol \in N
     /\ {AugmentedStart(a.start_symbol), EndMarker, Epsilon} \cap (N \cup T) = {}
     /\ \A k \in 1..Len(a.rules) :
          /\ a.rules[k].left \in N
          /\ Range(a.rules[k].right) \subseteq N \cup T

\* The contiguous pieces of w.
Subwords(w) == {SubSeq(w, i, j) : i \in 1..(Len(w) + 1), j \in 0..Len(w)}

\* Whether the symbols rhs derive u, D holding the pairs <<A, v>> with A =>* v
\* known so far.
RECURSIVE MatchSeq(_, _, _, _)
MatchSeq(a, D, rhs, u) ==
  IF rhs = <<>>
  THEN u = <<>>
  ELSE \E k \in 0..Len(u) :
         /\ IF rhs[1] \in Range(a.terminals)
            THEN SubSeq(u, 1, k) = <<rhs[1]>>
            ELSE <<rhs[1], SubSeq(u, 1, k)>> \in D
         /\ MatchSeq(a, D, Tail(rhs), SubSeq(u, k + 1, Len(u)))

\* The least set of pairs <<A, v>>, v a piece of w, closed under the productions.
RECURSIVE DerivableFrom(_, _, _)
DerivableFrom(a, w, D) ==
  LET D2 == D \cup {p \in Range(a.non_terminals) \X Subwords(w) :
                      \E k \in 1..Len(a.rules) :
                        /\ a.rules[k].left = p[1]
                        /\ MatchSeq(a, D, a.rules[k].right, p[2])}
  IN IF D2 = D THEN D ELSE DerivableFrom(a, w, D2)

\* w is derivable from the start symbol of the grammar the caller declared.
InLanguage(a, w) ==
  IF a.start_symbol \in Range(a.terminals)
  THEN w = <<a.start_symbol>>
  ELSE <<a.start_symbol, w>> \in DerivableFrom(a, w, {})

\* The query word of the call c, without the '$' predict appended.
Query(c) == SubSeq(word[c], 1, Len(word[c]) - 1)

-----------------------------------------------------------------------------
(* The actions the items of a state imply, from the table construction rules *)

\* The actions the items of state number i imply for the symbol sym: a shift
\* to the recorded transition target when an item has the terminal sym after
\* its dot, a reduce for a complete item [A -> alpha . , sym] with A other than
\* the augmented start, accept for [S' -> S . , $].
ImpliedActions(i, sym) ==
  LET I == states[i + 1] IN
  {<<"shift", t[3]>> : t \in {x \in Range(transitions) :
       /\ x[1] = i
       /\ x[2] = sym
       /\ sym \in grammar.terminals
       /\ \E item \in I : next_symbol(item) = sym}}
  \cup {<<"reduce", item.left, item.right>> : item \in {x \in I :
       /\ is_complete(x)
       /\ x.lookahead = sym
       /\ x.left # grammar.augmented_start}}
  \cup {<<"accept">> : item \in {x \in I :
       /\ sym = EndMarker
       /\ x = LR1Item(grammar.augmented_start, <<grammar.start_symbol>>, 1, EndMarker)}}

\* Some state implies two distinct actions for one cell.
HasConflict ==
  \E i \in 0..(Len(states) - 1) : \E sym \in grammar.terminals \cup {EndMarker} :
    Cardinality(ImpliedActions(i, sym)) >= 2

FitEnded == pc \in {"fitted", "grammar_error"}

-----------------------------------------------------------------------------
(* The claims *)

\* C1 (the claim as stated): for every grammar on which fit returns, and every
\* word w made only of terminals of the grammar, predict(w) returns True if and
\* only if w is derivable from the start symbol.
C1_PredictDecidesLanguage ==
  \A c \in Calls :
    (/\ ppc[c] = "done"
     /\ Range(Query(c)) \subseteq Range(args.terminals))
    => (result[c] = InLanguage(args, Query(c)))

\* The same equivalence on the inputs whose declared names do not hold the
\* augmented start (and that satisfy the other invariants of a grammar): there
\* predict decides the language.
PredictDecidesLanguageOnWellFormed ==
  \A c \in Calls :
    (/\ ppc[c] = "done"
     /\ WellFormed(args)
     /\ Range(Query(c)) \subseteq grammar.terminals)
    => (result[c] = InLanguage(args, Query(c)))

\* C2 (the claim as stated): after a successful fit on a grammar, predict(w)
\* returns False for every word w that holds a symbol outside the terminal set.
C2_OutsideSymbolRejected ==
  \A c \in Calls :
    (/\ ppc[c] = "done"
     /\ WellFormed(args)
     /\ ~(Range(Query(c)) \subseteq grammar.terminals))
    => (result[c] = FALSE)

ActionRowExact(i) ==
  /\ DOMAIN action_table[i + 1] \subseteq grammar.terminals \cup {EndMarker}
  /\ \A sym \in grammar.terminals \cup {EndMarker} :
       IF sym \in DOMAIN action_table[i + 1]
       THEN ImpliedActions(i, sym) = {action_table[i + 1][sym]}
       ELSE ImpliedActions(i, sym) = {}

\* C4 (the claim as stated): after a successful fit, every cell ACTION[i][a],
\* a a terminal or '$', holds the one action the items of state i imply for a
\* (shift to the recorded transition target, reduce for a complete item whose
\* left side is not the augmented start, accept for [S' -> S . , $]), and is
\* absent exactly when the items imply none.
C4_ActionTableExact ==
  (pc = "fitted") => \A i \in 0..(Len(states) - 1) : ActionRowExact(i)

\* The same on the inputs whose declared names do not hold the augmented start
\* (and that satisfy the other invariants of a grammar): there the table is exact.
ActionTableExactOnWellFormed ==
  (pc = "fitted" /\ WellFormed(args)) =>
    \A i \in 0..(Len(states) - 1) : ActionRowExact(i)

\* C5 (the claim as stated): Grammar construction raises whenever the start
\* symbol is no member of the declared nonterminals.
C5_BadStartRejected ==
  (args.start_symbol \notin Range(args.non_terminals)) => pc \in {"new", "construct_error"}

\* C6 (the claim as stated): the augmented start of a constructed grammar is no
\* symbol the caller declared, and exactly one production has it on the left.
C6_AugmentedStartFresh ==
  (pc \notin {"new", "construct_error"}) =>
    /\ grammar.augmented_start \notin Range(args.non_terminals) \cup Range(args.terminals)
    /\ Cardinality({k \in 1..Len(grammar.rules) :
                      grammar.rules[k].left = grammar.augmented_start}) = 1

\* The words b, ba, baa, ...
IsBThenAs(w) == Len(w) >= 1 /\ w[1] = "b" /\ \A i \in 2..Len(w) : w[i] = "a"

C9_EmptyWordIffNullable ==
  \A c \in Calls :
    (ppc[c] = "done" /\ Query(c) = <<>>)
    => /\ result[c] = (Epsilon \in grammar.first[grammar.start_symbol])
       /\ result[c] = InLanguage(args, <<>>)

\* The same on the grammars that do not declare '$' as a terminal.
EmptyWordIffNullableWithoutEndMarkerTerminal ==
  \A c \in Calls :
    (ppc[c] = "done" /\ Query(c) = <<>> /\ EndMarker \notin grammar.terminals)
    => /\ result[c] = (Epsilon \in grammar.first[grammar.start_symbol])
       /\ result[c] = InLanguage(args, <<>>)

\* C10: predict modifies no parser state and calls do not affect one another:
\* in every sequence or interleaving of predict calls on a fitted parser, no step
\* changes grammar, states, transitions, action_table or goto_table, and each
\* call returns what predict returns when it runs alone on the same word.
C10_PredictPure ==
  /\ [](\A c \in Calls :
          ppc[c] = "done" =>
            LET alone == predict(action_table, goto_table, Query(c)) IN
            alone.finished /\ result[c] = alone.result)
  /\ [][pc = "fitted" => UNCHANGED parserVars]_vars

\* C10 witness: a call on one word is past its first shift while a call on
\* another word, started before it ended, has returned True.
C10_Witness ==
  /\ ppc[1] = "run" /\ Len(stack[1]) >= 2
  /\ ppc[2] = "done" /\ result[2] = TRUE /\ Len(Query(2)) = 2
  /\ word[1] # word[2]

\* The rest of the loop of the call c, from its present stack and cursor, cut
\* after fuel iterations.
RestOfRun(c, fuel) ==
  PredictLoop(action_table, goto_table, word[c], stack[c], idx[c], fuel)

\* C11: for every input accepted by fit and every word, predict terminates:
\* from every configuration a call reaches, the driver loop returns (accept or
\* reject) within MaxIterations further iterations, so no run of reduce steps
\* goes on for ever.
C11_PredictTerminates ==
  \A c \in Calls : (ppc[c] = "run") => RestOfRun(c, MaxIterations).finished

\* C11 witness: a call on a word of three symbols is about to reduce, it has
\* not read its word to the end, and its loop needs more than four further
\* iterations to return.
C11_Witness ==
  /\ ppc[1] = "run"
  /\ Len(word[1]) = 4
  /\ idx[1] < 3
  /\ Iteration(1).kind = "reduce"
  /\ ~RestOfRun(1, 4).finished
  /\ RestOfRun(1, MaxIterations).finished

\* An exception has been raised while main read the input, constructed the
\* grammar or fitted the parser.
MainRaised == mpc \in {"except", "crash"} \/ (mpc = "exit" /\ pc # "fitted")

\* C12 (the claim as stated): whenever an exception is raised while main reads
\* the input, constructs the grammar or fits the parser, no exception leaves
\* main, and main ends having printed one line "No" for every query word and
\* nothing else.
C12_MainPrintsNoOnError ==
  /\ mpc # "crash"
  /\ (mpc = "exit" /\ MainRaised) =>
       (words.bound /\ output = [i \in 1..Len(words.value) |-> "No"])

\* What main does keep of it: when it is fit that raises, main prints one "No"
\* for every word and returns.
MainPrintsNoWhenFitRaises ==
  (pc = "grammar_error" /\ mpc \in {"exit", "crash"}) =>
    (mpc = "exit" /\ output = [i \in 1..Len(words.value) |-> "No"])

\* The four words of the language of S -> Aa | bAc | dc | bda, A -> d.
DocumentedLanguage ==
  {<<"d", "a">>, <<"b", "d", "c">>, <<"d", "c">>, <<"b", "d", "a">>}

\* C13 (the claim as stated): for the grammar S -> Aa | bAc | dc | bda, A -> d,
\* fit detects a conflict and raises GrammarError.
C13_DocumentedGrammarRaises ==
  (args = DocumentedInput /\ FitEnded) => pc = "grammar_error"

\* C13 (amended): for the grammar S -> Aa | bAc | dc | bda, A -> d,
\* construction and fit return without raising, and afterwards predict(w), w
\* over {a, b, c, d}, returns True exactly for da, bdc, dc and bda.
C13_DocumentedGrammarFits ==
  (args = DocumentedInput) =>
    /\ pc \notin {"construct_error", "grammar_error"}
    /\ \A c \in Calls :
         (ppc[c] = "done" /\ Range(Query(c)) \subseteq {"a", "b", "c", "d"})
         => (result[c] = (Query(c) \in DocumentedLanguage))

\* C13 witness: fitted on that grammar, predict("bda") has returned True after
\* shifting the d that predict("bdc") reduces to A.
C13_Witness ==
  /\ args = DocumentedInput
  /\ pc = "fitted"
  /\ ppc[1] = "done"
  /\ Query(1) = <<"b", "d", "a">>
  /\ result[1] = TRUE

-----------------------------------------------------------------------------
(* FIRST from the definition: leftmost derivations of sentential forms *)

\* The sentential forms of at most MaxFormLen symbols that leftmost derivation
\* steps of the grammar g reach from the forms F, a form that begins with a
\* terminal being left as it is.
RECURSIVE LeftmostForms(_, _)
LeftmostForms(g, F) ==
  LET open == {f \in F : f # <<>> /\ f[1] \in g.non_terminals}
      step == UNION {{g.rules[k].right \o Tail(f) :
                        k \in {n \in 1..Len(g.rules) : g.rules[n].left = f[1]}} : f \in open}
      F2 == F \cup {f \in step : Len(f) <= MaxFormLen}
  IN IF F2 = F THEN F ELSE LeftmostForms(g, F2)

\* The terminals that begin a string derived from the nonterminal A, and eps
\* when A derives the empty string.
FirstByDerivation(g, A) ==
  LET forms == LeftmostForms(g, {<<A>>}) IN
  {t \in g.terminals : \E f \in forms : f # <<>> /\ f[1] = t}
  \cup (IF <<>> \in forms THEN {Epsilon} ELSE {})

\* The FIRST map of the grammar g is the one the definition gives.
FirstExact(g) ==
  /\ DOMAIN g.first = g.non_terminals \cup g.terminals
  /\ \A t \in g.terminals : g.first[t] = {t}
  /\ \A A \in g.non_terminals : g.first[A] = FirstByDerivation(g, A)

\* C14 (the claim as stated): after Grammar construction, FIRST(a) = {a} for
\* every terminal a, and for every nonterminal A the set FIRST(A) holds exactly
\* the terminals that begin a string derived from A, and eps exactly when A
\* derives the empty string.
C14_FirstIsLeastFixedPoint ==
  (pc = "constructed") => FirstExact(grammar)

\* The same on the inputs whose declared names do not hold the augmented start
\* (and that satisfy the other invariants of a grammar).
FirstExactOnWellFormed ==
  (pc = "constructed" /\ WellFormed(args)) => FirstExact(grammar)

-----------------------------------------------------------------------------
(* CLOSURE from the definition *)

\* FIRST(beta a) for a sequence of symbols beta and a lookahead a: the
\* terminals that begin a string derived from beta, and a when beta derives the
\* empty string.
FirstOfSeqByDerivation(g, beta, a) ==
  LET forms == LeftmostForms(g, {beta}) IN
  {t \in g.terminals : \E f \in forms : f # <<>> /\ f[1] = t}
  \cup (IF <<>> \in forms THEN {a} ELSE {})

\* The items the closure rule asks for, given the items X: [B -> . gamma, b]
\* for every [A -> alpha . B beta, a] of X, production B -> gamma and terminal
\* b of FIRST(beta a).
Required(g, X) ==
  UNION {{LR1Item(g.rules[k].left, g.rules[k].right, 0, b) :
            k \in {n \in 1..Len(g.rules) : g.rules[n].left = next_symbol(item)},
            b \in FirstOfSeqByDerivation(g,
                   SubSeq(item.right, item.dot + 2, Len(item.right)), item.lookahead)} :
         item \in {x \in X : next_symbol(x) \in g.non_terminals}}

\* The least superset of X closed under the rule, by iteration from X.
RECURSIVE LeastClosed(_, _)
LeastClosed(g, X) ==
  LET X2 == X \cup Required(g, X) IN
  IF X2 = X THEN X ELSE LeastClosed(g, X2)

\* C15: for every set K of LR(1) items, closure(K) holds K, is closed under the
\* rule "[A -> alpha . B beta, a] in it, B -> gamma a production, b a terminal
\* of FIRST(beta a) => [B -> . gamma, b] in it", is the least such set, and the
\* lookahead of every item it adds is a terminal or '$', never eps.
C15_ClosureIsLeastClosedSuperset ==
  (pc = "closure_returned") =>
    /\ clo_items \subseteq clo_result
    /\ Required(grammar, clo_result) \subseteq clo_result
    /\ clo_result = LeastClosed(grammar, clo_items)
    /\ \A item \in clo_result \ clo_items :
         /\ item.lookahead \in grammar.terminals \cup {EndMarker}
         /\ item.lookahead # Epsilon

\* C15 witness: closure has returned a set with an item that was derived from
\* an added item, not from one of K, and an item whose lookahead is the
\* lookahead of no item of K.
C15_Witness ==
  /\ pc = "closure_returned"
  /\ clo_items # {}
  /\ \E item \in clo_result : item \notin clo_items \cup Required(grammar, clo_items)
  /\ \E item \in clo_result : \A k \in clo_items : item.lookahead # k.lookahead

\* C16: closure is idempotent: for the set closure(K) returned for any set K of
\* items, closure(closure(K)) is that same set; and every state build_states
\* has stored equals its own closure.
C16_ClosureIdempotent ==
  /\ (pc = "closure_returned") => (closure(grammar, clo_result) = clo_result)
  /\ \A i \in 1..Len(states) : closure(grammar, states[i]) = states[i]

\* C16 witness: closure has returned, for a set K of two items, a set with at
\* least two items more than K.
C16_Witness ==
  /\ pc = "closure_returned"
  /\ Cardinality(clo_items) = 2
  /\ Cardinality(clo_result) >= Cardinality(clo_items) + 2

\* build_states has just returned.
AfterBuildStates == pc = "build_tables" /\ bt_idx = 0 /\ bt_todo = states[1]

\* The 0-based targets of the transitions recorded for the state number i and
\* the symbol X.
RecordedTargets(i, X) ==
  {transitions[k][3] : k \in {n \in 1..Len(transitions) :
                                 transitions[n][1] = i /\ transitions[n][2] = X}}

\* C17: after build_states, states[0] is closure({[S' -> . S, $]}), no two
\* entries of the state list are equal, and for every state number i and every
\* symbol X of T and N a transition (i, X, j) is recorded exactly when
\* goto(states[i], X) is not empty; then states[j] is that set and j is the
\* only target recorded for (i, X).
C17_BuildStatesInvariants ==
  AfterBuildStates =>
    /\ states[1] = closure(grammar, {LR1Item(grammar.augmented_start,
                                              <<grammar.start_symbol>>, 0, EndMarker)})
    /\ \A i, j \in 1..Len(states) : (i # j) => (states[i] # states[j])
    /\ \A k \in 1..Len(transitions) :
         /\ transitions[k][1] \in 0..(Len(states) - 1)
         /\ transitions[k][2] \in grammar.terminals \cup grammar.non_terminals
         /\ transitions[k][3] \in 0..(Len(states) - 1)
    /\ \A i \in 0..(Len(states) - 1) :
         \A X \in grammar.terminals \cup grammar.non_terminals :
           LET goto_I == goto(grammar, states[i + 1], X) IN
           IF goto_I = {}
           THEN RecordedTargets(i, X) = {}
           ELSE \E j \in 0..(Len(states) - 1) :
                  /\ RecordedTargets(i, X) = {j}
                  /\ states[j + 1] = goto_I

\* C17 witness: build_states has returned at least four states, and a
\* transition leads back to a state that was in the list before its source
\* was taken from the queue.
C17_Witness ==
  /\ AfterBuildStates
  /\ Len(states) >= 4
  /\ \E k \in 1..Len(transitions) : transitions[k][3] <= transitions[k][1]

\* The symbol under the cursor of the call c.
SelectedSymbol(c) == IF idx[c] < Len(word[c]) THEN word[c][idx[c] + 1] ELSE EndMarker

\* The reduce the call c has selected: <<"reduce", left, right>>.
SelectedAction(c) == action_table[stack[c][Len(stack[c])] + 1][SelectedSymbol(c)]

\* What the claim says of a reduce step of the call c by A -> gamma: the stack
\* holds at least |gamma| + 1 entries, exactly |gamma| of them are removed,
\* GOTO[new top][A] is pushed, the cursor stays and predict does not return.
ReduceEffect(c) ==
  LET left == SelectedAction(c)[2]
      n == Len(SelectedAction(c)[3])
  IN /\ Len(stack[c]) >= n + 1
     /\ LET below == SubSeq(stack[c], 1, Len(stack[c]) - n)
            top == below[Len(below)]
        IN /\ left \in DOMAIN goto_table[top + 1]
           /\ stack'[c] = Append(below, goto_table[top + 1][left])
     /\ idx'[c] = idx[c]
     /\ ppc'[c] = "run"

\* C18: in every predict run after a successful fit, every reduce step by
\* A -> gamma removes exactly |gamma| entries of the stack (none for an
\* eps-production), pushes GOTO[new top][A] and leaves the cursor where it is;
\* the stack holds at least |gamma| + 1 entries when the reduce is selected, so
\* the guard that returns False in the pop loop is never taken.
C18_ReducePopsExactly ==
  [][\A c \in Calls : PredictReduce(c) => ReduceEffect(c)]_vars

\* C18 witness: a call has read two symbols and its stack holds two entries:
\* a reduce has popped the entries of a handle and pushed the GOTO state.
C18_Witness ==
  /\ ppc[1] = "run"
  /\ idx[1] >= 2
  /\ Len(stack[1]) = 2
  /\ Range(Query(1)) \subseteq grammar.terminals

\* The call c runs on a word over the terminals of the grammar.
WordOverTerminals(c) == Range(Query(c)) \subseteq grammar.terminals

\* C19: in every predict run after a successful fit on a word over T, the
\* iteration that makes predict return False is one that found no ACTION
\* entry: a reduce always finds GOTO[new top][A], the branch that rejects on an
\* absent GOTO entry is never taken.
C19_RejectOnlyOnAbsentAction ==
  \A c \in Calls :
    (ppc[c] = "run" /\ WordOverTerminals(c)
       /\ Iteration(c).done /\ ~Iteration(c).result)
      => /\ Iteration(c).kind = "reject"
         /\ SelectedSymbol(c) \notin DOMAIN action_table[stack[c][Len(stack[c])] + 1]

\* C19 witness: a run on a word over T is about to reject on an absent ACTION
\* entry, with a stack that holds a state a reduce has pushed from the GOTO
\* table.
C19_Witness ==
  /\ ppc[1] = "run"
  /\ WordOverTerminals(1)
  /\ Iteration(1).kind = "reject"
  /\ \E k \in 2..Len(stack[1]) :
       \E A \in DOMAIN goto_table[stack[1][k - 1] + 1] :
          goto_table[stack[1][k - 1] + 1][A] = stack[1][k]

\* The call c is inside predict: its locals are initialised and it has not
\* returned to its caller.
InPredict(c) == ppc[c] \in {"run", "done"}

\* The shape of the stack of the call c: not empty, state 0 at the bottom,
\* every entry the index of a state, every entry above the bottom the recorded
\* transition target of the entry below it on a grammar symbol.
StackIsPath(c) ==
  /\ stack[c] # <<>>
  /\ stack[c][1] = 0
  /\ \A k \in 1..Len(stack[c]) : stack[c][k] \in 0..(Len(states) - 1)
  /\ \A k \in 2..Len(stack[c]) :
       \E t \in Range(transitions) :
          /\ t[1] = stack[c][k - 1]
          /\ t[3] = stack[c][k]
          /\ t[2] \in grammar.non_terminals \cup grammar.terminals

\* The cursor of the call c is at most the position of the appended '$'.
CursorWithinWord(c) == idx[c] <= Len(word[c]) - 1

\* C20: at every step of every predict run on a fitted parser the stack is not
\* empty, its bottom entry is state 0, every entry is a valid state index,
\* every entry above the bottom is the recorded transition target of the
\* entry below it on some grammar symbol, and the cursor never exceeds the
\* position of the appended '$'.
C20_PredictStackAndCursor ==
  \A c \in Calls : InPredict(c) => (StackIsPath(c) /\ CursorWithinWord(c))

\* The same on the grammars that do not declare '$' as a terminal.
PredictStackAndCursorWithoutEndMarkerTerminal ==
  \A c \in Calls :
    (InPredict(c) /\ EndMarker \notin grammar.terminals)
      => (StackIsPath(c) /\ CursorWithinWord(c))

\* The stack part alone, on every grammar.
PredictStackIsPath == \A c \in Calls : InPredict(c) => StackIsPath(c)

====
